---- MODULE Spec2Model ----
(***************************************************************************)
(* CommClimb: the App component (view controller, project list, upload     *)
(* flow, rename/delete, notes), the transcription client and the           *)
(* /api/generateTranscript handler, with the key-value store they use.     *)
(*                                                                         *)
(* One action per event handler.  React state is the set of useState       *)
(* cells of App; a handler runs to completion (or to its await) in one     *)
(* step, and React re-renders before the next event, so every handler      *)
(* reads the current state except the continuation of handleFileUpload,    *)
(* which keeps the newProject it captured before the await.                *)
(***************************************************************************)
EXTENDS Integers, Sequences, FiniteSets, TLC

\* ---------------------------------------------------------------- bounds
\* crypto.randomUUID() is modelled by counters; the bounds cap them.
MaxProjects == 2
MaxNotes == 3

\* ------------------------------------------------------ optional values
\* T | null and T | undefined are sequences of length at most one.
Null == <<>>
Some(x) == <<x>>
IsNull(o) == o = <<>>
Val(o) == o[1]

\* ------------------------------------------------------------ JSON data
\* What response.json() / JSON.parse can yield for this API: an array of
\* segments, or the handler's error object { error: string }.
Arr(s) == [isArray |-> TRUE, items |-> s, error |-> ""]
ErrBody(m) == [isArray |-> FALSE, items |-> <<>>, error |-> m]

\* TranscriptSegment; text is a sequence of characters.
Seg(s, e, t) == [startTime |-> s, endTime |-> e, text |-> t]
Hello == Seg(0, 2, <<"H", "i">>)
World == Seg(2, 5, <<"y", "o", "u">>)
\* The segment arrays the model lets the AI return.
Transcripts == { <<Hello, World>> }

\* ---------------------------------------------------------------- files
\* File: name (characters), type (MIME, "" when the browser knows none).
DemoFile == [name |-> <<"d", ".", "m">>, type |-> "video/mp4", data |-> "AAAA"]
RawFile == [name |-> <<"d">>, type |-> "", data |-> "AAAA"]
Files == {DemoFile, RawFile}

\* Project names the rename input can hold.
EditNames == { <<>>, <<" ">>, <<" ", "n">> }

\* file.name.split('.')[0]: the characters before the first '.'
RECURSIVE SplitFirst(_)
SplitFirst(s) ==
  IF s = <<>> \/ s[1] = "." THEN <<>>
  ELSE <<s[1]>> \o SplitFirst(Tail(s))

\* String.prototype.trim restricted to the blank character.
RECURSIVE TrimLeft(_)
TrimLeft(s) == IF s # <<>> /\ s[1] = " " THEN TrimLeft(Tail(s)) ELSE s
RECURSIVE TrimRight(_)
TrimRight(s) ==
  IF s # <<>> /\ s[Len(s)] = " " THEN TrimRight(SubSeq(s, 1, Len(s) - 1)) ELSE s
\* Mutant of Trim: the text is taken as typed.
Trim_Untrimmed(s) == s

Trim(s) == TrimRight(TrimLeft(s))

\* ---------------------------------------------------------------- users
\* (email, password) pairs the auth form is submitted with.
Credentials == { <<"a@x", "pw">>, <<"a@x", "bad">>, <<"b@x", "pw">> }
\* Those of the single account a@x.
OwnerCredentials == { <<"a@x", "pw">>, <<"a@x", "bad">> }
UserOf(em) == [id |-> em, email |-> em, name |-> em]

\* ------------------------------------------------------ key-value store
\* services/storageService: keyed upsert, filtered reads.
Persisted(p) == [p EXCEPT !.videoUrl = ""]

saveProject(db, p) ==
  IF \E i \in DOMAIN db : db[i].id = p.id
  THEN [i \in DOMAIN db |-> IF db[i].id = p.id THEN Persisted(p) ELSE db[i]]
  ELSE Append(db, Persisted(p))

getProjects(db, userId) == SelectSeq(db, LAMBDA p : p.userId = userId)

deleteProjectRecord(db, id) == SelectSeq(db, LAMBDA p : p.id # id)

getNotes(db, projectId) == SelectSeq(db, LAMBDA n : n.projectId = projectId)

saveNote(db, n) ==
  IF \E i \in DOMAIN db : db[i].id = n.id
  THEN [i \in DOMAIN db |-> IF db[i].id = n.id THEN n ELSE db[i]]
  ELSE Append(db, n)

deleteNoteRecord(db, id) == SelectSeq(db, LAMBDA n : n.id # id)

\* loginUser: the user whose email and password match, else AuthError.
loginUser(users, em, pw) ==
  IF \E u \in users : u.email = em /\ u.password = pw
  THEN [ok |-> TRUE, user |-> UserOf(em), message |-> ""]
  ELSE [ok |-> FALSE, user |-> UserOf(em), message |-> "Invalid credentials"]

\* registerUser: AuthError when the email is taken.
registerUser(users, em, pw) ==
  IF \E u \in users : u.email = em
  THEN [ok |-> FALSE, user |-> UserOf(em), message |-> "Email taken"]
  ELSE [ok |-> TRUE, user |-> UserOf(em), message |-> ""]

\* ---------------------------------------------------------------- state
VARIABLES
  mounted,            \* the initialization effect has run
  user,               \* useState<User | null>
  view,               \* 'auth' | 'dashboard' | 'project'
  authError,          \* inline auth error message
  projects,           \* useState<Project[]>
  currentProject,     \* useState<Project | null>
  notes,              \* useState<Note[]>
  uploading,          \* useState(false)
  editingProjectId,   \* useState<string | null>
  editName,           \* useState('')
  activeTab,          \* 'original' | 'visual' | 'audio' | 'verbal'
  dbUsers,            \* store: registered users
  dbSession,          \* store: persisted current user
  dbProjects,         \* store: project records
  dbNotes,            \* store: note records
  calls,              \* transcription calls in flight
  nextProjectId,      \* next crypto.randomUUID() for a project
  nextNoteId,         \* next crypto.randomUUID() for a note
  unhandled,          \* a rejection escaped handleFileUpload
  currentTime,        \* useState(0): the time VideoPlayer last reported
  playing,            \* the media element is playing (not paused)
  mediaTime           \* the media element's currentTime

reactVars == <<user, view, authError, projects, currentProject, notes,
               uploading, editingProjectId, editName, activeTab>>
storeVars == <<dbUsers, dbSession, dbProjects, dbNotes>>
playerVars == <<currentTime, playing, mediaTime>>
vars == <<mounted, reactVars, storeVars, calls, nextProjectId, nextNoteId,
          unhandled, playerVars>>

\* Media positions: the start of the recording and a later instant.
Times == {0, 2}

\* <VideoPlayer ref={videoRef} .../> is rendered, so videoRef.current is set:
\* the project view is shown and the active project has a videoUrl.
videoMounted(v, cp) ==
  /\ v = "project"
  /\ ~IsNull(cp)
  /\ Val(cp).videoUrl # ""

\* The media element across a render that may mount or unmount VideoPlayer:
\* an element that stays mounted keeps its state, a new element starts
\* paused at 0, and there is no element state while none is mounted.
playerAfterRender ==
  /\ IF videoMounted(view, currentProject)
        /\ videoMounted(view', currentProject')
     THEN UNCHANGED <<playing, mediaTime>>
     ELSE playing' = FALSE /\ mediaTime' = 0
  /\ UNCHANGED currentTime

Tabs == {"original", "visual", "audio", "verbal"}

\* The stores the application can start on: nobody registered yet, or a@x
\* registered with or without a persisted session.
InitialStores ==
  { [users |-> {}, session |-> Null],
    [users |-> {[email |-> "a@x", password |-> "pw"]}, session |-> Null],
    [users |-> {[email |-> "a@x", password |-> "pw"]},
     session |-> Some(UserOf("a@x"))] }

\* The state after the first render: the useState initial values, over a
\* store that holds no project and no note yet.
Init ==
  /\ mounted = FALSE
  /\ user = Null
  /\ view = "auth"
  /\ authError = ""
  /\ projects = <<>>
  /\ currentProject = Null
  /\ notes = <<>>
  /\ uploading = FALSE
  /\ editingProjectId = Null
  /\ editName = <<>>
  /\ activeTab = "original"
  /\ \E st \in InitialStores : dbUsers = st.users /\ dbSession = st.session
  /\ dbProjects = <<>>
  /\ dbNotes = <<>>
  /\ calls = {}
  /\ nextProjectId = 1
  /\ nextNoteId = 1
  /\ unhandled = FALSE
  /\ currentTime = 0
  /\ playing = FALSE
  /\ mediaTime = 0

\* ------------------------------------------------------- initialization
\* useEffect(() => { ... }, []): restore a persisted session.
Initialization ==
  /\ ~mounted
  /\ mounted' = TRUE
  /\ IF ~IsNull(dbSession)
     THEN /\ user' = dbSession
          /\ projects' = getProjects(dbProjects, Val(dbSession).id)
          /\ view' = "dashboard"
     ELSE UNCHANGED <<user, projects, view>>
  /\ UNCHANGED <<authError, currentProject, notes, uploading,
                 editingProjectId, editName, activeTab, storeVars, calls,
                 nextProjectId, nextNoteId, unhandled, playerVars>>

\* ------------------------------------------------------------------ auth
\* Mutant of handleAuth: the error message is not cleared at submit.
handleAuth_KeepsError(isLogin, em, pw) ==
  /\ mounted /\ view = "auth"
  /\ LET r == IF isLogin THEN loginUser(dbUsers, em, pw)
                         ELSE registerUser(dbUsers, em, pw)
     IN IF r.ok
        THEN /\ authError' = authError
             /\ user' = Some(r.user)
             /\ projects' = getProjects(dbProjects, r.user.id)
             /\ view' = "dashboard"
             /\ dbSession' = Some(r.user)
             /\ dbUsers' = IF isLogin THEN dbUsers
                           ELSE dbUsers \cup {[email |-> em, password |-> pw]}
        ELSE /\ authError' = r.message
             /\ UNCHANGED <<user, projects, view, dbSession, dbUsers>>
  /\ UNCHANGED <<mounted, currentProject, notes, uploading,
                 editingProjectId, editName, activeTab, dbProjects, dbNotes,
                 calls, nextProjectId, nextNoteId, unhandled, playerVars>>

\* handleAuth with the form in mode isLogin and holding (em, pw): the form
\* fields are read only here, so they are inputs of the submit.
handleAuth(isLogin, em, pw) ==
  /\ mounted /\ view = "auth"
  /\ LET r == IF isLogin THEN loginUser(dbUsers, em, pw)
                         ELSE registerUser(dbUsers, em, pw)
     IN IF r.ok
        THEN /\ authError' = ""
             /\ user' = Some(r.user)
             /\ projects' = getProjects(dbProjects, r.user.id)
             /\ view' = "dashboard"
             /\ dbSession' = Some(r.user)
             /\ dbUsers' = IF isLogin THEN dbUsers
                           ELSE dbUsers \cup {[email |-> em, password |-> pw]}
        ELSE /\ authError' = r.message
             /\ UNCHANGED <<user, projects, view, dbSession, dbUsers>>
  /\ UNCHANGED <<mounted, currentProject, notes, uploading,
                 editingProjectId, editName, activeTab, dbProjects, dbNotes,
                 calls, nextProjectId, nextNoteId, unhandled, playerVars>>

\* Mutant of handleLogout: a logout that is also offered in the project view.
handleLogout_FromProject ==
  /\ mounted /\ view \in {"dashboard", "project"}
  /\ dbSession' = Null
  /\ user' = Null
  /\ view' = "auth"
  /\ currentProject' = Null
  /\ UNCHANGED <<mounted, authError, projects, notes, uploading,
                 editingProjectId, editName, activeTab, dbUsers, dbProjects,
                 dbNotes, calls, nextProjectId, nextNoteId, unhandled>>
  /\ playerAfterRender

\* The "Log Out" button of the dashboard header.
handleLogout ==
  /\ mounted /\ view = "dashboard"
  /\ dbSession' = Null
  /\ user' = Null
  /\ view' = "auth"
  /\ currentProject' = Null
  /\ UNCHANGED <<mounted, authError, projects, notes, uploading,
                 editingProjectId, editName, activeTab, dbUsers, dbProjects,
                 dbNotes, calls, nextProjectId, nextNoteId, unhandled>>
  /\ playerAfterRender

\* ---------------------------------------------------- transcription API
\* fileToBase64: the data-URL payload of the file ("" for an empty file).
fileToBase64(file) == file.data

\* The JSON body generateTranscript posts to /api/generateTranscript.
requestBody(file) ==
  [videoFileBase64 |-> fileToBase64(file), mimeType |-> file.type]

\* What ai.models.generateContent can do: throw, answer with the JSON text
\* of a segment array, answer with text that is not JSON, answer no text.
AiOutcomes ==
  {[kind |-> k, data |-> <<>>] : k \in {"throws", "badtext", "notext"}}
    \cup {[kind |-> "text", data |-> t] : t \in Transcripts}

Response(st, b) == [status |-> st, isJson |-> TRUE, body |-> b]
\* A reply that is not JSON (an HTML error page of the hosting layer).
HtmlError == [status |-> 502, isJson |-> FALSE, body |-> Arr(<<>>)]

\* pages/api handler: the response it sends for a request body.
handlerResponse(body, ai) ==
  IF body.videoFileBase64 = "" \/ body.mimeType = ""
  THEN Response(400, ErrBody("Missing video data"))
  ELSE IF ai.kind \in {"throws", "badtext"}
       THEN Response(500, ErrBody("Transcription failed"))
  ELSE IF ai.kind = "text"
       THEN Response(200, Arr(ai.data))
  ELSE Response(200, Arr(<<>>))

\* Settlement of the promise generateTranscript returns.
Resolved(v) == [ok |-> TRUE, value |-> v]
Rejected == [ok |-> FALSE, value |-> Arr(<<>>)]

\* generateTranscript over fetch: `return await response.json()`.
generateTranscript(resp) ==
  IF resp.isJson THEN Resolved(resp.body) ELSE Rejected

\* generateTranscript calling the model from the browser: rethrows.
generateTranscriptDirect(ai) ==
  IF ai.kind \in {"throws", "badtext"} THEN Rejected
  ELSE IF ai.kind = "text" THEN Resolved(Arr(ai.data))
  ELSE Resolved(Arr(<<>>))

\* ------------------------------------------------------------ open/close
\* Mutant of openProjectUpdates: a rename edit in progress is not checked.
openProjectUpdates_Unguarded(project) ==
  /\ currentProject' = Some(project)
  /\ notes' = getNotes(dbNotes, project.id)
  /\ activeTab' = "original"
  /\ view' = "project"

\* The state updates of openProject(project).
openProjectUpdates(project) ==
  IF ~IsNull(editingProjectId)
  THEN UNCHANGED <<currentProject, notes, activeTab, view>>
  ELSE /\ currentProject' = Some(project)
       /\ notes' = getNotes(dbNotes, project.id)
       /\ activeTab' = "original"
       /\ view' = "project"

\* Click on the i-th project card.
openProject(i) ==
  /\ mounted /\ view = "dashboard"
  /\ i \in DOMAIN projects
  /\ openProjectUpdates(projects[i])
  /\ UNCHANGED <<mounted, user, authError, projects, uploading,
                 editingProjectId, editName, storeVars, calls, nextProjectId,
                 nextNoteId, unhandled>>
  /\ playerAfterRender

\* The back button of the project view.
closeProject ==
  /\ mounted /\ view = "project"
  /\ view' = "dashboard"
  /\ UNCHANGED <<mounted, user, authError, projects, currentProject,
                 notes, uploading, editingProjectId, editName, activeTab,
                 storeVars, calls, nextProjectId, nextNoteId, unhandled>>
  /\ playerAfterRender

\* Mutant of pauseOnVerbal: the effect leaves the element as it is.
pauseOnVerbal_Never(tab, p) == p

\* useEffect(..., [activeTab]): `if (activeTab === 'verbal' &&
\* videoRef.current) videoRef.current.pause()`; the playing status after the
\* effect ran for the tab just made active, p being the status before.
pauseOnVerbal(tab, p) ==
  IF tab = "verbal" /\ videoMounted(view, currentProject) THEN FALSE ELSE p

\* A tab button: setActiveTab(t), then the effect if activeTab changed.
setActiveTab(t) ==
  /\ mounted /\ view = "project"
  /\ activeTab' = t
  /\ playing' = IF t # activeTab THEN pauseOnVerbal(t, playing) ELSE playing
  /\ UNCHANGED <<mounted, user, view, authError, projects,
                 currentProject, notes, uploading, editingProjectId, editName,
                 storeVars, calls, nextProjectId, nextNoteId, unhandled,
                 currentTime, mediaTime>>

\* ---------------------------------------------------------- video panel
\* Everything but the media element and currentTime.
appVars == <<mounted, reactVars, storeVars, calls, nextProjectId, nextNoteId,
             unhandled>>

\* The video panel can be operated: it carries the class `hidden` while the
\* verbal tab is active.
panelShown == mounted /\ view = "project" /\ activeTab # "verbal"

\* The player's own control starts playback.
play ==
  /\ panelShown /\ videoMounted(view, currentProject)
  /\ ~playing
  /\ playing' = TRUE
  /\ UNCHANGED <<appVars, currentTime, mediaTime>>

\* The player's own control, or the end of the media, stops playback.
pause ==
  /\ mounted /\ videoMounted(view, currentProject)
  /\ playing
  /\ playing' = FALSE
  /\ UNCHANGED <<appVars, currentTime, mediaTime>>

\* Playback moves the position of a playing element.
playbackAdvances(t) ==
  /\ mounted /\ videoMounted(view, currentProject)
  /\ playing /\ t > mediaTime
  /\ mediaTime' = t
  /\ UNCHANGED <<appVars, currentTime, playing>>

\* onTimeUpdate={setCurrentTime}: the element reports its position.
onTimeUpdate ==
  /\ mounted /\ videoMounted(view, currentProject)
  /\ currentTime # mediaTime
  /\ currentTime' = mediaTime
  /\ UNCHANGED <<appVars, playing, mediaTime>>

\* Mutant of jumpToTime: the seek also starts playback.
jumpToTime_Plays(time) ==
  /\ panelShown
  /\ IF videoMounted(view, currentProject)
     THEN mediaTime' = time /\ playing' = TRUE
     ELSE UNCHANGED <<mediaTime, playing>>
  /\ UNCHANGED <<appVars, currentTime>>

\* jumpToTime(time), called by a NoteList of the three media tabs.
jumpToTime(time) ==
  /\ panelShown
  /\ IF videoMounted(view, currentProject)
     THEN mediaTime' = time
     ELSE UNCHANGED mediaTime
  /\ UNCHANGED <<appVars, currentTime, playing>>

\* The "Re-upload" input shown in place of the player; sel is
\* e.target.files[0] or nothing.
reUpload(sel) ==
  /\ panelShown /\ ~videoMounted(view, currentProject)
  /\ currentProject' =
       IF IsNull(sel) \/ IsNull(currentProject) THEN currentProject
       ELSE Some([Val(currentProject) EXCEPT !.videoUrl = "blob"])
  /\ UNCHANGED <<mounted, user, view, authError, projects, notes, uploading,
                 editingProjectId, editName, activeTab, storeVars, calls,
                 nextProjectId, nextNoteId, unhandled>>
  /\ playerAfterRender

\* ---------------------------------------------------------------- upload
\* Mutant of newProject: the project is created with isTranscribing: false.
newProject_Idle(id, owner, file) ==
  [id |-> id,
   userId |-> owner.id,
   name |-> SplitFirst(file.name),
   videoUrl |-> "blob",
   isTranscribing |-> FALSE,
   transcript |-> Arr(<<>>)]

\* const newProject: Project = { ... } for the selected file; id is the
\* fresh crypto.randomUUID().
newProject(id, owner, file) ==
  [id |-> id,
   userId |-> owner.id,
   name |-> SplitFirst(file.name),
   videoUrl |-> "blob",
   isTranscribing |-> TRUE,
   transcript |-> Arr(<<>>)]

\* Mutant of updatedProject: only the first segment is attached.
updatedProject_Truncated(captured, transcript) ==
  [captured EXCEPT
     !.transcript = [transcript EXCEPT
                       !.items = IF transcript.items = <<>> THEN <<>>
                                 ELSE <<transcript.items[1]>>],
     !.isTranscribing = FALSE]

\* { ...newProject, transcript, isTranscribing: false }
updatedProject(captured, transcript) ==
  [captured EXCEPT !.transcript = transcript, !.isTranscribing = FALSE]

\* Mutant of failedProject: the failure path forgets to clear the flag.
failedProject_StillTranscribing(captured) == captured

\* { ...newProject, isTranscribing: false }
failedProject(captured) == [captured EXCEPT !.isTranscribing = FALSE]

\* handleFileUpload up to its await; sel is e.target.files[0] or nothing.
handleFileUpload(sel) ==
  /\ mounted /\ view = "dashboard" /\ ~uploading
  /\ nextProjectId <= MaxProjects
  /\ IF IsNull(sel) \/ IsNull(user)
     THEN UNCHANGED vars
     ELSE LET file == Val(sel)
              created == newProject(nextProjectId, Val(user), file)
          IN /\ dbProjects' = saveProject(dbProjects, created)
             /\ projects' = Append(projects, created)
             /\ openProjectUpdates(created)
             /\ uploading' = FALSE
             /\ calls' = calls \cup {[project |-> created, file |-> file]}
             /\ nextProjectId' = nextProjectId + 1
             /\ UNCHANGED <<mounted, user, authError,
                            editingProjectId, editName, dbUsers, dbSession,
                            dbNotes, nextNoteId, unhandled>>
             /\ playerAfterRender

\* handleFileUpload after its await, for call c whose promise settled as r.
afterAwait(c, r) ==
  /\ c \in calls
  /\ calls' = calls \ {c}
  /\ IF r.ok
     THEN LET updated == updatedProject(c.project, r.value)
          IN /\ currentProject' = Some(updated)
             /\ projects' = [i \in DOMAIN projects |->
                               IF projects[i].id = updated.id
                               THEN updated ELSE projects[i]]
             /\ dbProjects' = saveProject(dbProjects, updated)
     ELSE LET failed == failedProject(c.project)
          IN /\ currentProject' = Some(failed)
             /\ projects' = projects
             /\ dbProjects' = saveProject(dbProjects, failed)
  /\ unhandled' = unhandled
  /\ UNCHANGED <<mounted, user, view, authError, notes, uploading,
                 editingProjectId, editName, activeTab, dbUsers, dbSession,
                 dbNotes, nextProjectId, nextNoteId>>
  /\ playerAfterRender

\* What the network delivers to `await fetch(...)` / `response.json()`.
NetOutcomes == {"rejects", "html", "handler"}

\* The response fetch resolves with, when it resolves.
fetchResponse(file, net, ai) ==
  IF net = "html" THEN HtmlError
  ELSE handlerResponse(requestBody(file), ai)

\* generateTranscript over fetch settles for call c.
fetchSettles(c, net, ai) ==
  /\ c \in calls
  /\ afterAwait(c, IF net = "rejects" THEN Rejected
                   ELSE generateTranscript(fetchResponse(c.file, net, ai)))

\* The in-browser generateTranscript settles with the model's outcome.
directSettles(c, ai) ==
  /\ c \in calls
  /\ afterAwait(c, generateTranscriptDirect(ai))

\* ------------------------------------------------------- rename / delete
\* The rename input is rendered in the card of the project being edited.
renameInputShown ==
  /\ view = "dashboard"
  /\ \E i \in DOMAIN projects : Some(projects[i].id) = editingProjectId

\* Mutant of handleStartRename: the edit text is not reset to the name.
handleStartRename_KeepsText(i) ==
  /\ mounted /\ view = "dashboard"
  /\ i \in DOMAIN projects
  /\ editingProjectId' = Some(projects[i].id)
  /\ UNCHANGED <<mounted, user, view, authError, projects,
                 currentProject, notes, uploading, editName, activeTab,
                 storeVars, calls, nextProjectId, nextNoteId, unhandled,
                 playerVars>>

\* The rename button of the i-th card.
handleStartRename(i) ==
  /\ mounted /\ view = "dashboard"
  /\ i \in DOMAIN projects
  /\ editingProjectId' = Some(projects[i].id)
  /\ editName' = projects[i].name
  /\ UNCHANGED <<mounted, user, view, authError, projects,
                 currentProject, notes, uploading, activeTab, storeVars, calls,
                 nextProjectId, nextNoteId, unhandled, playerVars>>

\* onChange of the rename input.
setEditName(v) ==
  /\ mounted /\ renameInputShown
  /\ editName' = v
  /\ UNCHANGED <<mounted, user, view, authError, projects,
                 currentProject, notes, uploading, editingProjectId, activeTab,
                 storeVars, calls, nextProjectId, nextNoteId, unhandled, playerVars>>

\* Blur or Enter on the rename input; the handler checks editingProjectId
\* itself, and a blur can still arrive as the input unmounts.
handleSaveRename ==
  /\ mounted /\ view = "dashboard"
  /\ IF IsNull(editingProjectId)
     THEN UNCHANGED vars
     ELSE /\ LET found == {i \in DOMAIN projects :
                             projects[i].id = Val(editingProjectId)}
             IN IF found # {} /\ Trim(editName) # <<>>
                THEN LET project == projects[CHOOSE i \in found :
                                               \A j \in found : i <= j]
                         updated == [project EXCEPT !.name = Trim(editName)]
                     IN /\ dbProjects' = saveProject(dbProjects, updated)
                        /\ projects' = [i \in DOMAIN projects |->
                                          IF projects[i].id = updated.id
                                          THEN updated ELSE projects[i]]
                ELSE UNCHANGED <<dbProjects, projects>>
          /\ editingProjectId' = Null
          /\ editName' = <<>>
          /\ UNCHANGED <<mounted, user, view, authError,
                         currentProject, notes, uploading, activeTab, dbUsers,
                         dbSession, dbNotes, calls, nextProjectId, nextNoteId,
                         unhandled, playerVars>>

\* Escape in the rename input.
cancelRename ==
  /\ mounted /\ renameInputShown
  /\ editingProjectId' = Null
  /\ UNCHANGED <<mounted, user, view, authError, projects,
                 currentProject, notes, uploading, editName, activeTab,
                 storeVars, calls, nextProjectId, nextNoteId, unhandled, playerVars>>

\* Mutant of handleDeleteProject: the answer of window.confirm is ignored.
handleDeleteProject_Unconfirmed(i, confirmed) ==
  /\ mounted /\ view = "dashboard"
  /\ i \in DOMAIN projects
  /\ dbProjects' = deleteProjectRecord(dbProjects, projects[i].id)
  /\ projects' = SelectSeq(projects, LAMBDA p : p.id # projects[i].id)
  /\ UNCHANGED <<mounted, user, view, authError, currentProject,
                 notes, uploading, editingProjectId, editName, activeTab,
                 dbUsers, dbSession, dbNotes, calls, nextProjectId, nextNoteId,
                 unhandled, playerVars>>

\* The delete button of the i-th card; confirmed is window.confirm's answer.
handleDeleteProject(i, confirmed) ==
  /\ mounted /\ view = "dashboard"
  /\ i \in DOMAIN projects
  /\ IF confirmed
     THEN /\ dbProjects' = deleteProjectRecord(dbProjects, projects[i].id)
          /\ projects' = SelectSeq(projects,
                                   LAMBDA p : p.id # projects[i].id)
     ELSE UNCHANGED <<dbProjects, projects>>
  /\ UNCHANGED <<mounted, user, view, authError, currentProject,
                 notes, uploading, editingProjectId, editName, activeTab,
                 dbUsers, dbSession, dbNotes, calls, nextProjectId, nextNoteId,
                 unhandled, playerVars>>

\* ----------------------------------------------------------------- notes
NoteTypeOfTab(t) ==
  CASE t = "original" -> "ORIGINAL"
    [] t = "visual" -> "VIDEO"
    [] t = "audio" -> "AUDIO"
    [] t = "verbal" -> "VERBAL"

\* Arguments of onAddNote(content, time) of the three NoteList tabs.
NoVerbal ==
  [time |-> 2, segmentIdx |-> Null, quote |-> Null, highlightStart |-> Null,
   highlightEnd |-> Null, color |-> Null]

Highlight(idx, q, s, e) ==
  [time |-> 0, segmentIdx |-> Some(idx), quote |-> Some(q),
   highlightStart |-> Some(s), highlightEnd |-> Some(e),
   color |-> Some("#ff0")]

\* Arguments onAddHighlight(idx, content, quote, start, end, color) passes.
VerbalArgs ==
  { Highlight(0, <<"H", "i">>, 0, 2),
    Highlight(0, <<"i">>, 2, 1),
    Highlight(1, <<"y", "o", "u">>, 0, 3),
    [NoVerbal EXCEPT !.time = 0] }

\* Mutant of newNote: the id is not fresh.
newNote_FixedId(id, project, type, a) ==
  [id |-> 1,
   projectId |-> project.id,
   type |-> type,
   timestamp |-> a.time,
   transcriptSegmentIndex |-> a.segmentIdx,
   quote |-> a.quote,
   highlightStart |-> a.highlightStart,
   highlightEnd |-> a.highlightEnd,
   color |-> a.color]

\* const newNote: Note = { ... }; id is the fresh crypto.randomUUID().
newNote(id, project, type, a) ==
  [id |-> id,
   projectId |-> project.id,
   type |-> type,
   timestamp |-> a.time,
   transcriptSegmentIndex |-> a.segmentIdx,
   quote |-> a.quote,
   highlightStart |-> a.highlightStart,
   highlightEnd |-> a.highlightEnd,
   color |-> a.color]

\* addNote(content, time, type, segmentIdx, quote, start, end, color)
addNote(type, a) ==
  /\ mounted /\ view = "project"
  /\ type = NoteTypeOfTab(activeTab)
  /\ nextNoteId <= MaxNotes
  /\ IF IsNull(currentProject)
     THEN UNCHANGED vars
     ELSE LET created == newNote(nextNoteId, Val(currentProject), type, a)
          IN /\ dbNotes' = saveNote(dbNotes, created)
             /\ notes' = Append(notes, created)
             /\ nextNoteId' = nextNoteId + 1
             /\ UNCHANGED <<mounted, user, view, authError, projects,
                            currentProject, uploading, editingProjectId,
                            editName, activeTab, dbUsers, dbSession,
                            dbProjects, calls, nextProjectId, unhandled, playerVars>>

\* Mutant of deleteNote: the note is removed by position, and the position
\* of an absent id removes the last note.
deleteNote_ByPosition(id) ==
  /\ mounted /\ view = "project"
  /\ dbNotes' = deleteNoteRecord(dbNotes, id)
  /\ notes' = IF \E k \in DOMAIN notes : notes[k].id = id
               THEN SelectSeq(notes, LAMBDA n : n.id # id)
               ELSE SubSeq(notes, 1, Len(notes) - 1)
  /\ UNCHANGED <<mounted, user, view, authError, projects,
                 currentProject, uploading, editingProjectId, editName,
                 activeTab, dbUsers, dbSession, dbProjects, calls,
                 nextProjectId, nextNoteId, unhandled, playerVars>>

\* deleteNote(id), id being any note id a list item can carry.
deleteNote(id) ==
  /\ mounted /\ view = "project"
  /\ dbNotes' = deleteNoteRecord(dbNotes, id)
  /\ notes' = SelectSeq(notes, LAMBDA n : n.id # id)
  /\ UNCHANGED <<mounted, user, view, authError, projects,
                 currentProject, uploading, editingProjectId, editName,
                 activeTab, dbUsers, dbSession, dbProjects, calls,
                 nextProjectId, nextNoteId, unhandled, playerVars>>

\* Mutant of shownNotes: the visual tab filters by its own name.
shownNotes_VisualByTabName(t) ==
  CASE t = "original" -> SelectSeq(notes, LAMBDA n : n.type = "ORIGINAL")
    [] t = "visual" -> SelectSeq(notes, LAMBDA n : n.type = "VISUAL")
    [] t = "audio" -> SelectSeq(notes, LAMBDA n : n.type = "AUDIO")
    [] t = "verbal" -> SelectSeq(notes, LAMBDA n : n.type = "VERBAL")

\* notes={notes.filter(n => n.type === NoteType.X)}: the notes the content
\* of tab t is rendered with.
shownNotes(t) ==
  CASE t = "original" -> SelectSeq(notes, LAMBDA n : n.type = "ORIGINAL")
    [] t = "visual" -> SelectSeq(notes, LAMBDA n : n.type = "VIDEO")
    [] t = "audio" -> SelectSeq(notes, LAMBDA n : n.type = "AUDIO")
    [] t = "verbal" -> SelectSeq(notes, LAMBDA n : n.type = "VERBAL")

\* ------------------------------------------------------------------ next
\* Session: start-up, the auth form, logout.
NextSession(creds) ==
  \/ Initialization
  \/ \E isLogin \in BOOLEAN, cr \in creds : handleAuth(isLogin, cr[1], cr[2])
  \/ handleLogout

\* Projects: upload and its settlement, open/close, rename, delete.
NextProjects ==
  \/ \E sel \in {Null} \cup {Some(f) : f \in Files} : handleFileUpload(sel)
  \/ \E c \in calls, net \in NetOutcomes, ai \in AiOutcomes :
       fetchSettles(c, net, ai)
  \/ \E c \in calls, ai \in AiOutcomes : directSettles(c, ai)
  \/ \E i \in 1..MaxProjects : openProject(i)
  \/ closeProject
  \/ \E i \in 1..MaxProjects : handleStartRename(i)
  \/ \E v \in EditNames : setEditName(v)
  \/ handleSaveRename
  \/ cancelRename
  \/ \E i \in 1..MaxProjects, confirmed \in BOOLEAN :
       handleDeleteProject(i, confirmed)

\* The annotation panel of the project view: tabs and notes.
NextNotes ==
  \/ \E t \in Tabs : setActiveTab(t)
  \/ \E a \in {NoVerbal} : \E type \in {"ORIGINAL", "VIDEO", "AUDIO"} :
       addNote(type, a)
  \/ \E a \in VerbalArgs : addNote("VERBAL", a)
  \/ \E id \in 1..MaxNotes : deleteNote(id)

\* The video panel.
NextPlayer ==
  \/ play
  \/ pause
  \/ \E t \in Times : playbackAdvances(t)
  \/ onTimeUpdate
  \/ \E t \in Times : jumpToTime(t)
  \/ \E sel \in {Null} \cup {Some(f) : f \in Files} : reUpload(sel)

Next ==
  NextSession(Credentials) \/ NextProjects \/ NextNotes \/ NextPlayer

Spec == Init /\ [][Next]_vars

\* The session and project handlers alone, with the one account a@x.
\* setActiveTab, addNote and deleteNote write only activeTab, notes, dbNotes
\* and nextNoteId, which no handler below reads in a condition or copies
\* into a project, the view, the user or the store's projects.
NextOwnerProjects == NextSession(OwnerCredentials) \/ NextProjects
SpecProjects == Init /\ [][NextOwnerProjects]_vars

\* The annotation handlers with the upload flow that feeds them: one
\* account and one uploaded recording, no rename and no delete.
NextOwnerNotes ==
  \/ NextSession(OwnerCredentials)
  \/ \E sel \in {Some(f) : f \in Files} :
       nextProjectId = 1 /\ handleFileUpload(sel)
  \/ \E c \in calls, net \in NetOutcomes, ai \in AiOutcomes :
       fetchSettles(c, net, ai)
  \/ \E c \in calls, ai \in AiOutcomes : directSettles(c, ai)
  \/ \E i \in 1..MaxProjects : openProject(i)
  \/ closeProject
  \/ NextNotes
SpecNotes == Init /\ [][NextOwnerNotes]_vars

\* The video panel with the upload flow and the tabs: one account, no
\* rename, no delete and no notes.
NextOwnerPlayer ==
  \/ NextSession(OwnerCredentials)
  \/ \E sel \in {Some(f) : f \in Files} : handleFileUpload(sel)
  \/ \E c \in calls, net \in NetOutcomes, ai \in AiOutcomes :
       fetchSettles(c, net, ai)
  \/ \E c \in calls, ai \in AiOutcomes : directSettles(c, ai)
  \/ \E i \in 1..MaxProjects : openProject(i)
  \/ closeProject
  \/ \E t \in Tabs : setActiveTab(t)
  \/ NextPlayer
SpecPlayer == Init /\ [][NextOwnerPlayer]_vars

\* The session handlers with both accounts and the upload flow that fills
\* their project lists: no rename, no delete, no notes, no video panel.
NextUsers ==
  \/ NextSession(Credentials)
  \/ \E sel \in {Some(f) : f \in Files} : handleFileUpload(sel)
  \/ \E c \in calls, net \in NetOutcomes, ai \in AiOutcomes :
       fetchSettles(c, net, ai)
  \/ \E c \in calls, ai \in AiOutcomes : directSettles(c, ai)
  \/ \E i \in 1..MaxProjects : openProject(i)
  \/ closeProject
SpecUsers == Init /\ [][NextUsers]_vars

\* Notes against the background settlements: one account, any number of
\* uploads, open/close, and notes added on the tab a project opens with.
NextOwnerUploadsNotes ==
  \/ NextSession(OwnerCredentials)
  \/ \E sel \in {Some(f) : f \in Files} : handleFileUpload(sel)
  \/ \E c \in calls, net \in NetOutcomes, ai \in AiOutcomes :
       fetchSettles(c, net, ai)
  \/ \E c \in calls, ai \in AiOutcomes : directSettles(c, ai)
  \/ \E i \in 1..MaxProjects : openProject(i)
  \/ closeProject
  \/ addNote("ORIGINAL", NoVerbal)
SpecUploadsNotes == Init /\ [][NextOwnerUploadsNotes]_vars

\* One session of the account a@x: the project handlers with no logout.
NextOneSession ==
  \/ Initialization
  \/ \E isLogin \in BOOLEAN, cr \in OwnerCredentials :
       handleAuth(isLogin, cr[1], cr[2])
  \/ NextProjects
SpecOneSession == Init /\ [][NextOneSession]_vars

\* ================================================================ claims
\* Ids handed out so far, the records of a project id in the store and in
\* the project list, and whether its transcription call is still in flight.
CreatedIds == 1..(nextProjectId - 1)
StoreRecs(id) == {dbProjects[i] : i \in {j \in DOMAIN dbProjects : dbProjects[j].id = id}}
ListRecs(id) == {projects[i] : i \in {j \in DOMAIN projects : projects[j].id = id}}
Pending(id) == \E c \in calls : c.project.id = id

\* A step in which handleFileUpload created a project.
UploadStep == nextProjectId' = nextProjectId + 1

\* The ways the promise of call c can settle, over both generateTranscript
\* definitions and everything the network and the model can answer.
SettleResults(c) ==
  {IF net = "rejects" THEN Rejected
   ELSE generateTranscript(fetchResponse(c.file, net, ai)) :
     net \in NetOutcomes, ai \in AiOutcomes}
    \cup {generateTranscriptDirect(ai) : ai \in AiOutcomes}

\* The transcription promise of call c rejects / resolves with value v, and
\* handleFileUpload resumes (the step fetchSettles or directSettles takes).
uploadRejects(c) ==
  /\ c \notin calls'
  /\ Rejected \in SettleResults(c)
  /\ afterAwait(c, Rejected)

uploadResolves(c, v) ==
  /\ c \notin calls'
  /\ Resolved(v) \in SettleResults(c)
  /\ afterAwait(c, Resolved(v))

\* C1: every record of an uploaded project, in the store and in the project
\* list, has transcribing = true exactly while its transcription call is in
\* flight: true until the call settles, false ever after.
C1_TranscribingUntilSettled ==
  \A id \in CreatedIds :
    \A p \in StoreRecs(id) \cup ListRecs(id) : p.isTranscribing <=> Pending(id)

\* C2: a step that uploads a file leaves, with the gateway call still in
\* flight, a project owned by the logged-in user with transcribing = true
\* and an empty transcript in the store and as the last entry of the list.
C2_UploadCreatesTranscribingProject ==
  [][UploadStep =>
       \A id \in {nextProjectId} : \A owner \in {user} :
         LET fresh(p) == /\ p.id = id
                         /\ p.userId = Val(owner).id
                         /\ p.isTranscribing
                         /\ p.transcript = Arr(<<>>)
         IN /\ ~IsNull(owner)
            /\ Pending(id)'
            /\ StoreRecs(id)' # {}
            /\ \A p \in StoreRecs(id)' : fresh(p)
            /\ Len(projects') = Len(projects) + 1
            /\ fresh(projects'[Len(projects')])
            /\ SubSeq(projects', 1, Len(projects)) = projects]_vars

\* C2 witness: a second upload is the last list entry, still transcribing,
\* with its call in flight.
C2_Witness ==
  /\ Len(projects) = 2
  /\ Pending(projects[2].id)
  /\ projects[2].isTranscribing
  /\ projects[2].transcript = Arr(<<>>)
  /\ StoreRecs(projects[2].id) # {}

\* C3: when the call of an upload rejects, the stored record and the active
\* project are the uploaded project with transcribing = false and an empty
\* transcript, and no rejection escapes handleFileUpload.
C3_RejectionClearsTranscribing ==
  [][\A c \in calls :
       uploadRejects(c) =>
         /\ StoreRecs(c.project.id)' # {}
         /\ \A p \in StoreRecs(c.project.id)' :
              ~p.isTranscribing /\ p.transcript = Arr(<<>>)
         /\ ~IsNull(currentProject')
         /\ Val(currentProject').id = c.project.id
         /\ ~Val(currentProject').isTranscribing
         /\ Val(currentProject').transcript = Arr(<<>>)
         /\ ~unhandled']_vars

\* C3 witness: a call has rejected: the list entry was left transcribing
\* while the active project and the stored record are the failed project.
C3_Witness ==
  \E i \in DOMAIN projects :
    /\ ~Pending(projects[i].id)
    /\ projects[i].isTranscribing
    /\ currentProject = Some(failedProject(projects[i]))
    /\ \E p \in StoreRecs(projects[i].id) : ~p.isTranscribing
    /\ ~unhandled

\* C4: when the call of an upload resolves with a segment array S, the
\* stored record, the list entry and the active project have transcribing =
\* false and transcript S; and once a project's call has settled, no step
\* changes the transcript of its stored record or of its list entry.
C4_TranscriptAttachedAndStable ==
  [][/\ \A c \in calls : \A S \in Transcripts \cup {<<>>} :
          uploadResolves(c, Arr(S)) =>
            /\ StoreRecs(c.project.id)' # {}
            /\ \A p \in StoreRecs(c.project.id)' \cup ListRecs(c.project.id)' :
                 ~p.isTranscribing /\ p.transcript = Arr(S)
            /\ ~IsNull(currentProject')
            /\ Val(currentProject').id = c.project.id
            /\ ~Val(currentProject').isTranscribing
            /\ Val(currentProject').transcript = Arr(S)
     /\ \A id \in CreatedIds :
          ~Pending(id) =>
            \A p \in StoreRecs(id) \cup ListRecs(id) :
              \A q \in StoreRecs(id)' \cup ListRecs(id)' :
                q.transcript = p.transcript]_vars

\* C4 witness: a two-segment transcript was attached and the project was
\* renamed afterwards; store and list still hold the two segments in order.
C4_Witness ==
  \E id \in CreatedIds :
    /\ ~Pending(id)
    /\ \E p \in StoreRecs(id) :
         p.name = <<"n">> /\ p.transcript = Arr(<<Hello, World>>)
    /\ \E p \in ListRecs(id) :
         p.name = <<"n">> /\ p.transcript = Arr(<<Hello, World>>)

\* C5: when the handler answers a call with a non-2xx status, the upload
\* takes its failure path: the stored record has transcribing = false and
\* an empty transcript, never the error body.
C5_Non2xxIsFailure ==
  [][\A c \in calls : \A ai \in AiOutcomes :
       (/\ handlerResponse(requestBody(c.file), ai).status \notin 200..299
        /\ fetchSettles(c, "handler", ai)) =>
         \A p \in StoreRecs(c.project.id)' :
           ~p.isTranscribing /\ p.transcript = Arr(<<>>)]_vars

\* The highlight of VERBAL note n is complete and lies inside the text of
\* the segment it references in transcript t.
ValidHighlight(n, t) ==
  /\ ~IsNull(n.transcriptSegmentIndex)
  /\ ~IsNull(n.highlightStart)
  /\ ~IsNull(n.highlightEnd)
  /\ ~IsNull(n.quote)
  /\ t.isArray
  /\ Val(n.transcriptSegmentIndex) + 1 \in DOMAIN t.items
  /\ 0 <= Val(n.highlightStart)
  /\ Val(n.highlightStart) <= Val(n.highlightEnd)
  /\ Val(n.highlightEnd) <= Len(t.items[Val(n.transcriptSegmentIndex) + 1].text)

\* C6: every VERBAL note addNote appends to the in-memory notes has its
\* segment index, bounds and quote, with 0 <= start <= end <= length of the
\* referenced segment's text in the active project's transcript (a call
\* that violates this appends nothing).
C6_VerbalNotesValidated ==
  [][(Len(notes') = Len(notes) + 1 /\ nextNoteId' = nextNoteId + 1
      /\ notes'[Len(notes')].type = "VERBAL") =>
       /\ ~IsNull(currentProject)
       /\ ValidHighlight(notes'[Len(notes')], Val(currentProject).transcript)]_vars

\* A project that was created and is now neither stored nor listed: only a
\* confirmed delete removes a record from the store.
Deleted(id) == StoreRecs(id) = {} /\ ListRecs(id) = {}

\* C7: a deleted project stays deleted: no step brings a record of it back
\* into the store or the project list.
C7_DeletedStaysDeleted ==
  [][\A id \in CreatedIds : Deleted(id) => Deleted(id)']_vars

\* C8: logout leaves view = auth, no user and no active project, and while
\* nobody is logged in (no project can be opened) the active project stays
\* null.
C8_LogoutClearsActiveProject ==
  [][/\ (~IsNull(user) /\ IsNull(user')) =>
          (view' = "auth" /\ IsNull(currentProject'))
     /\ (IsNull(user) /\ IsNull(currentProject)) => IsNull(currentProject')]_vars

\* C9: the view changes only auth->dashboard (with a user set),
\* dashboard->project, project->dashboard and dashboard->auth, and a step
\* that settles a transcription call leaves the view unchanged.
C9_ViewTransitions ==
  [][/\ view' # view =>
          \/ view = "auth" /\ view' = "dashboard" /\ ~IsNull(user')
          \/ view = "dashboard" /\ view' = "project" /\ ~IsNull(currentProject')
          \/ view = "project" /\ view' = "dashboard"
          \/ view = "dashboard" /\ view' = "auth" /\ IsNull(user')
     /\ (\E c \in calls : c \notin calls') => view' = view]_vars

\* C9 witness: every transition was taken and a call settled meanwhile:
\* back on the auth view after an upload whose call is no longer in flight.
C9_Witness ==
  /\ view = "auth"
  /\ mounted
  /\ nextProjectId > 1
  /\ calls = {}

\* C10: a step that uploads a file opens the new project: view = project,
\* the active project is the new project, the tab is original and the
\* in-memory notes are the stored notes of the new project.
C10_UploadOpensProject ==
  [][UploadStep =>
       /\ view' = "project"
       /\ ~IsNull(currentProject')
       /\ Val(currentProject').id = nextProjectId
       /\ Val(currentProject') = projects'[Len(projects')]
       /\ activeTab' = "original"
       /\ notes' = getNotes(dbNotes', nextProjectId)]_vars

\* ------------------------------------------------------------------ C11
\* C11: whenever the verbal tab is the active tab the media element is not
\* playing, and a step that leaves the verbal tab for another tab leaves the
\* element paused (playback is not resumed by the switch).
C11_VerbalTabPaused ==
  /\ [](activeTab = "verbal" => ~playing)
  /\ [][(activeTab = "verbal" /\ activeTab' # "verbal") => ~playing']_vars

\* The verbal tab is active over a mounted element that had been played.
C11_Witness ==
  /\ view = "project" /\ activeTab = "verbal"
  /\ videoMounted(view, currentProject)
  /\ mediaTime # 0

\* ------------------------------------------------------------------ C12
\* C12: a jumpToTime step leaves the playing/paused status as it was and
\* writes nothing but the element's position; when no media element is
\* mounted it changes nothing at all.
C12_SeekKeepsPlayback ==
  [][(\E t \in Times : jumpToTime(t)) =>
       /\ playing' = playing
       /\ UNCHANGED <<appVars, currentTime>>
       /\ ~videoMounted(view, currentProject) => UNCHANGED vars]_vars

\* A playing element whose position is behind the time it last reported:
\* it was moved back by a seek.
C12_Witness ==
  /\ videoMounted(view, currentProject)
  /\ playing
  /\ mediaTime < currentTime

\* ------------------------------------------------------------------ C13
\* The text consists of spaces only (or is empty).
IsBlank(s) == \A i \in DOMAIN s : s[i] = " "

\* C13: a commit (handleSaveRename) of a rename edit whose text is empty or
\* blank writes nothing to the store, leaves the project list as it was and
\* ends the edit.
C13_BlankRenameKeepsName ==
  [][(handleSaveRename /\ ~IsNull(editingProjectId) /\ IsBlank(editName)) =>
       /\ dbProjects' = dbProjects
       /\ projects' = projects
       /\ IsNull(editingProjectId')]_vars

\* A rename edit of a listed project holds a text of spaces.
C13_Witness ==
  /\ renameInputShown
  /\ editName # <<>> /\ IsBlank(editName)

\* ------------------------------------------------------------------ C14
\* C14: Escape (cancelRename) ends the edit and leaves store and list as
\* they were; a commit that runs while no edit is in progress writes
\* neither; and when an edit starts, its text is the name the list shows for
\* the project being edited, whatever text an earlier edit left behind.
C14_EscapeDiscardsEdit ==
  [][/\ cancelRename =>
          /\ IsNull(editingProjectId')
          /\ dbProjects' = dbProjects
          /\ projects' = projects
     /\ (handleSaveRename /\ IsNull(editingProjectId)) =>
          UNCHANGED <<dbProjects, projects>>
     /\ (IsNull(editingProjectId) /\ ~IsNull(editingProjectId')) =>
          \E i \in DOMAIN projects :
            /\ projects[i].id = Val(editingProjectId')
            /\ editName' = projects[i].name]_vars

\* After an Escape: no edit in progress, the discarded text still in
\* editName, and no listed project carrying it as its name.
C14_Witness ==
  /\ view = "dashboard"
  /\ IsNull(editingProjectId)
  /\ ~IsBlank(editName)
  /\ projects # <<>>
  /\ \A i \in DOMAIN projects : projects[i].name # Trim(editName)

\* ------------------------------------------------------------------ C18
\* seq with the records of project id left out, the others in their order.
WithoutProject(seq, id) == SelectSeq(seq, LAMBDA p : p.id # id)

\* C18: a delete that is declined at the confirmation changes nothing (store,
\* list, view and active project included); a confirmed delete of a listed
\* project leaves no record with its id in the store or in the list and
\* keeps every other record, unchanged and in its place.
C18_DeleteOnlyOnConfirm ==
  [][\A i \in 1..MaxProjects :
       /\ handleDeleteProject(i, FALSE) => UNCHANGED vars
       /\ handleDeleteProject(i, TRUE) =>
            /\ dbProjects' = WithoutProject(dbProjects, projects[i].id)
            /\ projects' = WithoutProject(projects, projects[i].id)
            /\ UNCHANGED <<view, currentProject>>]_vars

\* A created project is gone from the store and from the list while the
\* other created project is still in both.
C18_Witness ==
  /\ view = "dashboard"
  /\ \E id \in CreatedIds, other \in CreatedIds :
       /\ StoreRecs(id) = {} /\ ListRecs(id) = {}
       /\ StoreRecs(other) # {} /\ ListRecs(other) # {}

\* ------------------------------------------------------------------ C20
\* C20: while a rename edit is in progress, a click on a project card
\* (openProject) leaves the view, the active project, the in-memory notes and
\* the active tab as they were; and the project view is only ever entered
\* from a state with no rename edit in progress.
C20_NoOpenWhileRenaming ==
  [][/\ \A i \in 1..MaxProjects :
          (openProject(i) /\ ~IsNull(editingProjectId)) =>
            UNCHANGED <<view, currentProject, notes, activeTab>>
     /\ (view # "project" /\ view' = "project") =>
          IsNull(editingProjectId)]_vars

\* A rename edit is in progress on the dashboard while two cards are
\* listed and no project is active.
C20_Witness ==
  /\ renameInputShown
  /\ Len(projects) = MaxProjects
  /\ IsNull(currentProject)

\* ------------------------------------------------------------------ C15
\* seq2 is seq with its k-th element taken out, the others in their order.
RemovedAt(seq, seq2, k) ==
  seq2 = SubSeq(seq, 1, k - 1) \o SubSeq(seq, k + 1, Len(seq))

\* seq2 is what a delete of id makes of seq: seq itself when no element has
\* the id, else seq without that one element.
DeletedFrom(seq, seq2, id) ==
  IF \A k \in DOMAIN seq : seq[k].id # id
  THEN seq2 = seq
  ELSE \E k \in DOMAIN seq : seq[k].id = id /\ RemovedAt(seq, seq2, k)

\* C15: deleteNote(id) with an id no note has leaves the in-memory notes and
\* the stored notes as they are and reports no error; with an id a note has it
\* takes out exactly that note, in memory and in the store, the other notes
\* staying unchanged and in their order. Deleting the same id again is then a
\* step of the first kind.
C15_DeleteNoteIdempotent ==
  [][\A id \in 1..MaxNotes :
       deleteNote(id) =>
         /\ DeletedFrom(notes, notes', id)
         /\ DeletedFrom(dbNotes, dbNotes', id)
         /\ unhandled' = unhandled
         /\ \A k \in DOMAIN notes' : notes'[k].id # id
         /\ \A k \in DOMAIN dbNotes' : dbNotes'[k].id # id]_vars

\* The second of three notes was deleted: the first and the third are left,
\* in that order, in memory and in the store.
C15_Witness ==
  /\ view = "project"
  /\ nextNoteId = MaxNotes + 1
  /\ Len(notes) = 2 /\ notes[1].id = 1 /\ notes[2].id = MaxNotes
  /\ dbNotes = notes

\* ------------------------------------------------------------------ C16
NoVerbalFields(n) ==
  /\ IsNull(n.transcriptSegmentIndex)
  /\ IsNull(n.quote)
  /\ IsNull(n.highlightStart)
  /\ IsNull(n.highlightEnd)
  /\ IsNull(n.color)

\* A step in which addNote created a note.
AddNoteStep == nextNoteId' = nextNoteId + 1

\* C16: a step in which addNote creates a note happens with an active
\* project and appends exactly one note at the end of the in-memory notes,
\* the earlier ones unchanged; its id is the id of no note in memory or in
\* the store, its projectId is the active project's id, the same note is
\* appended to the stored notes with every stored note unchanged, and a note
\* of kind ORIGINAL, VIDEO or AUDIO carries no verbal field. addNote with no
\* active project changes nothing.
C16_AddNoteAppendsOne ==
  [][/\ AddNoteStep =>
          /\ ~IsNull(currentProject)
          /\ Len(notes') = Len(notes) + 1
          /\ SubSeq(notes', 1, Len(notes)) = notes
          /\ LET n == notes'[Len(notes')]
             IN /\ \A k \in DOMAIN notes : notes[k].id # n.id
                /\ \A k \in DOMAIN dbNotes : dbNotes[k].id # n.id
                /\ n.projectId = Val(currentProject).id
                /\ dbNotes' = Append(dbNotes, n)
                /\ n.type \in {"ORIGINAL", "VIDEO", "AUDIO"} =>
                     NoVerbalFields(n)
     /\ \A type \in {"ORIGINAL", "VIDEO", "AUDIO", "VERBAL"},
           a \in VerbalArgs \cup {NoVerbal} :
          (addNote(type, a) /\ IsNull(currentProject)) => UNCHANGED vars]_vars

\* Three notes were added one after the other, a media note after a verbal
\* highlight, and all three are in the store.
C16_Witness ==
  /\ Len(notes) = MaxNotes
  /\ dbNotes = notes
  /\ \A k \in DOMAIN notes : notes[k].id = k
  /\ notes[1].type = "VERBAL" /\ ~NoVerbalFields(notes[1])
  /\ notes[2].type = "AUDIO"

\* ------------------------------------------------------------------ C19
\* The kind of note the claim assigns to a tab.
KindOfTab(t) ==
  CASE t = "original" -> "ORIGINAL"
    [] t = "visual" -> "VIDEO"
    [] t = "audio" -> "AUDIO"
    [] t = "verbal" -> "VERBAL"

\* The positions in notes of the notes of tab t's kind.
KindPositions(t) == {k \in DOMAIN notes : notes[k].type = KindOfTab(t)}

\* The j-th smallest position of S.
NthOf(S, j) == CHOOSE k \in S : Cardinality({m \in S : m <= k}) = j

\* C19: for each of the four tabs the notes shown are the in-memory notes of
\* the tab's kind, each once and in the order they have in memory, and every
\* in-memory note is shown on exactly one tab, so that the four sequences
\* together have as many notes as there are in memory.
C19_TabsPartitionNotes ==
  /\ \A t \in Tabs :
       /\ Len(shownNotes(t)) = Cardinality(KindPositions(t))
       /\ \A j \in DOMAIN shownNotes(t) :
            shownNotes(t)[j] = notes[NthOf(KindPositions(t), j)]
  /\ \A k \in DOMAIN notes :
       Cardinality({t \in Tabs : \E j \in DOMAIN shownNotes(t) :
                                   shownNotes(t)[j] = notes[k]}) = 1
  /\ Len(shownNotes("original")) + Len(shownNotes("visual"))
       + Len(shownNotes("audio")) + Len(shownNotes("verbal")) = Len(notes)

\* Three notes in memory, the first and the last of the visual tab's kind
\* and another kind between them.
C19_Witness ==
  /\ view = "project"
  /\ Len(notes) = MaxNotes
  /\ notes[1].type = "VIDEO"
  /\ notes[2].type = "ORIGINAL"
  /\ notes[MaxNotes].type = "VIDEO"

\* ------------------------------------------------------------------ C17
\* The submit (isLogin, em, pw) is accepted by the store as it is: a login
\* whose pair is registered, a registration whose email is not.
Accepted(isLogin, em, pw) ==
  IF isLogin
  THEN [email |-> em, password |-> pw] \in dbUsers
  ELSE \A u \in dbUsers : u.email # em

\* The list holds exactly the stored projects of the owner, each once.
ListsProjectsOf(list, ownerId) ==
  /\ \A i \in DOMAIN list :
       /\ list[i].userId = ownerId
       /\ \E k \in DOMAIN dbProjects : dbProjects[k] = list[i]
       /\ \A j \in DOMAIN list : list[j].id = list[i].id => j = i
  /\ \A k \in DOMAIN dbProjects :
       dbProjects[k].userId = ownerId =>
         \E i \in DOMAIN list : list[i] = dbProjects[k]

\* C17: a submit of the auth form that the store refuses (login with a pair
\* that is not registered, registration of a taken email) leaves the view at
\* auth, the user unset and the project list as it was, and records a
\* non-empty error message; a submit that the store accepts, after a failure
\* or not, leaves the message empty, sets the user to the submitted account,
\* makes the project list exactly that user's stored projects and moves the
\* view to dashboard.
C17_FailedAuthStaysOnAuth ==
  [][\A isLogin \in BOOLEAN, cr \in Credentials :
       handleAuth(isLogin, cr[1], cr[2]) =>
         IF Accepted(isLogin, cr[1], cr[2])
         THEN /\ authError' = ""
              /\ user' = Some(UserOf(cr[1]))
              /\ ListsProjectsOf(projects', UserOf(cr[1]).id)
              /\ view' = "dashboard"
         ELSE /\ view' = "auth"
              /\ IsNull(user')
              /\ projects' = projects
              /\ authError' # ""]_vars

\* A refused submit on the auth view: the message is shown, nobody is logged
\* in, the list still holds the previous session's project, and the store
\* holds a project of each of the two accounts.
C17_Witness ==
  /\ view = "auth"
  /\ authError # ""
  /\ IsNull(user)
  /\ projects # <<>>
  /\ \E k \in DOMAIN dbProjects : dbProjects[k].userId = "a@x"
  /\ \E k \in DOMAIN dbProjects : dbProjects[k].userId = "b@x"

\* ------------------------------------------------------------------ C21
\* C21: in the project view every in-memory note has the projectId of the
\* active project.
C21_NotesBelongToActiveProject ==
  (view = "project" /\ ~IsNull(currentProject)) =>
    \A k \in DOMAIN notes : notes[k].projectId = Val(currentProject).id

\* ------------------------------------------------------------------ C22
\* C22: the step in which the transcription call of a project settles
\* leaves the project's name as it is, in every stored record and in every
\* list entry of that project; a name committed by a rename while the call
\* was pending is therefore still the name after the settlement.
C22_RenameSurvivesSettlement ==
  [][\A c \in calls :
       c \notin calls' =>
         /\ \A r \in StoreRecs(c.project.id) :
              \E r2 \in StoreRecs(c.project.id)' : r2.name = r.name
         /\ \A i \in DOMAIN projects :
              projects[i].id = c.project.id =>
                projects'[i].name = projects[i].name]_vars

\* ------------------------------------------------------------------ C23
\* C23: between handlers, in a session without a logout, every entry of the
\* project list agrees with each stored record of the same id on name,
\* isTranscribing and transcript.
C23_ListAgreesWithStore ==
  \A i \in DOMAIN projects :
    \A r \in StoreRecs(projects[i].id) :
      /\ r.name = projects[i].name
      /\ r.isTranscribing = projects[i].isTranscribing
      /\ r.transcript = projects[i].transcript

\* ------------------------------------------------------------------ C24
\* C24: in the dashboard and in the project view a user is set, and in the
\* project view an active project is set whose userId is the id of that
\* user.
C24_ViewsHaveUserAndOwnProject ==
  /\ view \in {"dashboard", "project"} => ~IsNull(user)
  /\ view = "project" =>
       /\ ~IsNull(currentProject)
       /\ ~IsNull(user) => Val(currentProject).userId = Val(user).id

====
